---- MODULE Spec2Model ----
(***************************************************************************)
(* MegaETH allocation checker.                                             *)
(*                                                                         *)
(* Four programs of the repository are modelled:                           *)
(*   - checkAllocations, direct-read version with the off-chain API        *)
(*     (src/unnamed/part_000), specification SpecDirect;                   *)
(*   - checkAllocations, direct-read version without the API (first        *)
(*     program of src/src/App.jsx, lines 1-246), specification SpecNoApi;  *)
(*   - checkAllocations, event-scan version (second program of             *)
(*     src/src/App.jsx, lines 248-492), specification SpecScan;            *)
(*   - the relay function (src/netlify/functions/allocation.js),           *)
(*     specification SpecRelay; its handler is also what the direct-read   *)
(*     version reaches through fetch in a production build.                *)
(* SpecApp is the component in any of its three versions.                  *)
(*                                                                         *)
(* JavaScript strings are sequences of one-character strings, so that      *)
(* startsWith, endsWith, the address regular expression, toLowerCase and   *)
(* Number() are computed and not assumed.                                  *)
(***************************************************************************)
EXTENDS Integers, Sequences, FiniteSets

VARIABLES
    version,         \* which program is running: "direct", "scan" or "relay"
    dev,             \* import.meta.env.DEV of the build
    cancelRequested, \* the caller has asked for the request in flight to stop
    address,         \* React state: the input field
    loading,         \* React state
    result,          \* React state: NullResult or a result object
    error,           \* React state: a string, <<>> is ""
    progress,        \* React state: [msg |-> ""] is ""
    pc,              \* the suspension point checkAllocations is waiting at,
                     \* "done" at the end of its finally, "idle" when not running
    calls,           \* remote calls issued by the current invocation, in order
    resolvedAddress, \* local of checkAllocations
    entityID,        \* local of checkAllocations
    entityState,     \* local of checkAllocations (direct-read)
    apiResponse,     \* local: what fetch gave (direct-read)
    currentBlock,    \* local (event scan)
    fromBlock,       \* local (event scan): the loop variable
    allLogs,         \* local (event scan)
    relayPc,         \* relay: "idle", "upstream" or "responded"
    relayReq,        \* relay: the entityId query parameter of the request
    relayUp,         \* relay: what the upstream fetch gave
    relayResp,       \* relay: the Response returned
    relayCalls       \* relay: upstream calls issued for the request

uiVars     == <<address, loading, result, error, progress>>
reqVars    == <<pc, calls, resolvedAddress, entityID>>
directVars == <<entityState, apiResponse>>
scanVars   == <<currentBlock, fromBlock, allLogs>>
relayVars  == <<relayPc, relayReq, relayUp, relayResp, relayCalls>>
vars == <<version, dev, cancelRequested, uiVars, reqVars, directVars, scanVars,
         relayVars>>

(***************************************************************************)
(* Strings                                                                 *)
(***************************************************************************)
Rep(c, n) == [i \in 1..n |-> c]

LowerHex == {"a", "b", "c", "d", "e", "f"}
UpperHex == {"A", "B", "C", "D", "E", "F"}
Digits   == {"0", "1", "2", "3", "4", "5", "6", "7", "8", "9"}

\* [a-fA-F0-9]
HexChars == LowerHex \cup UpperHex \cup Digits

\* String.prototype.startsWith / endsWith
StartsWith(s, p) == Len(s) >= Len(p) /\ SubSeq(s, 1, Len(p)) = p
EndsWith(s, p)   == Len(s) >= Len(p) /\ SubSeq(s, Len(s) - Len(p) + 1, Len(s)) = p

UpperLetters == <<"A", "B", "C", "D", "E", "F", "G", "H", "I", "J", "K", "L", "M",
                  "N", "O", "P", "Q", "R", "S", "T", "U", "V", "W", "X", "Y", "Z">>
LowerLetters == <<"a", "b", "c", "d", "e", "f", "g", "h", "i", "j", "k", "l", "m",
                  "n", "o", "p", "q", "r", "s", "t", "u", "v", "w", "x", "y", "z">>

\* the lower-case form of a character: every letter A-Z has one, any other
\* character of the model's alphabet (digits, punctuation, a-z) is its own
LowerOf ==
    [c \in {UpperLetters[i] : i \in 1..Len(UpperLetters)} |->
        LowerLetters[CHOOSE i \in 1..Len(UpperLetters) : UpperLetters[i] = c]]

LowerChar(c) == IF c \in DOMAIN LowerOf THEN LowerOf[c] ELSE c

\* String.prototype.toLowerCase
ToLowerCase(s) == [i \in 1..Len(s) |-> LowerChar(s[i])]

\* number of hex digits of an address literal, the {40} of the regular expression
AddrHexLen == 40

\* address.match(/^0x[a-fA-F0-9]{40}$/)
MatchesAddress(s) ==
    /\ Len(s) = 2 + AddrHexLen
    /\ s[1] = "0"
    /\ s[2] = "x"
    /\ \A i \in 3..Len(s) : s[i] \in HexChars

Str0x  == <<"0", "x">>
DotEth == <<".", "e", "t", "h">>

(***************************************************************************)
(* JavaScript values of a JSON body: Number() and truthiness               *)
(***************************************************************************)
Undef   == [t |-> "undef"]
JNull   == [t |-> "null"]
JNum(n) == [t |-> "num", n |-> n]
JStr(s) == [t |-> "str", s |-> s]

\* a Number: NaN, an infinity (inf = 1 or -1), or the finite decimal n / d
\* with d the least power of ten that makes n whole
NaN    == [nan |-> TRUE,  inf |-> 0, n |-> 0, d |-> 1]
Inf(s) == [nan |-> FALSE, inf |-> s, n |-> 0, d |-> 1]
Num(n) == [nan |-> FALSE, inf |-> 0, n |-> n, d |-> 1]

RECURSIVE Decimal(_, _)
Decimal(n, d) ==
    IF d > 1 /\ n % 10 = 0 THEN Decimal(n \div 10, d \div 10)
    ELSE [nan |-> FALSE, inf |-> 0, n |-> n, d |-> d]

Negate(x) ==
    IF x.nan THEN x ELSE [nan |-> FALSE, inf |-> 0 - x.inf, n |-> 0 - x.n, d |-> x.d]

\* x > 0
NumberIsPositive(x) == ~x.nan /\ (x.inf = 1 \/ (x.inf = 0 /\ x.n > 0))

RECURSIVE Pow10(_)
Pow10(k) == IF k = 0 THEN 1 ELSE 10 * Pow10(k - 1)

DigitVal(c) ==
    CASE c = "0" -> 0 [] c = "1" -> 1 [] c = "2" -> 2 [] c = "3" -> 3
      [] c = "4" -> 4 [] c = "5" -> 5 [] c = "6" -> 6 [] c = "7" -> 7
      [] c = "8" -> 8 [] c = "9" -> 9
      [] c \in {"a", "A"} -> 10 [] c \in {"b", "B"} -> 11
      [] c \in {"c", "C"} -> 12 [] c \in {"d", "D"} -> 13
      [] c \in {"e", "E"} -> 14 [] c \in {"f", "F"} -> 15

\* the value of a digit string in a base
RECURSIVE BaseVal(_, _)
BaseVal(s, base) ==
    IF s = <<>> THEN 0
    ELSE BaseVal(SubSeq(s, 1, Len(s) - 1), base) * base + DigitVal(s[Len(s)])

DecVal(s) == BaseVal(s, 10)

AllIn(s, chars) == Len(s) > 0 /\ \A i \in 1..Len(s) : s[i] \in chars
AllDigits(s) == AllIn(s, Digits)

\* white space and line terminators that Number() strips
\* (TAB, LF, VT, FF, CR, SP: the ones in ASCII, the alphabet of the model)
\* U+000B, the vertical tab, for which TLA+ has no escape: the string holds
\* the character itself
VT == ""
WhiteSpace == {" ", "\t", "\n", VT, "\f", "\r"}

\* the positions of s that hold no white space
Inked(s) == {i \in 1..Len(s) : s[i] \notin WhiteSpace}

Least(S)    == CHOOSE i \in S : \A j \in S : i <= j
Greatest(S) == CHOOSE i \in S : \A j \in S : i >= j

TrimStart(s) ==
    IF Inked(s) = {} THEN <<>> ELSE SubSeq(s, Least(Inked(s)), Len(s))

TrimEnd(s) ==
    IF Inked(s) = {} THEN <<>> ELSE SubSeq(s, 1, Greatest(Inked(s)))

Trim(s) == TrimEnd(TrimStart(s))

\* the first position of s holding one of the characters, 0 when none does
FirstIn(s, chars) ==
    LET at == {i \in 1..Len(s) : s[i] \in chars} IN
    IF at = {} THEN 0 ELSE Least(at)

\* 0x, 0o and 0b literals: a prefix and at least one digit of the base
NonDecimalBase(s) ==
    IF Len(s) < 3 \/ s[1] # "0" THEN 0
    ELSE IF s[2] \in {"x", "X"} /\ AllIn(SubSeq(s, 3, Len(s)), HexChars) THEN 16
    ELSE IF s[2] \in {"o", "O"}
            /\ AllIn(SubSeq(s, 3, Len(s)), {"0", "1", "2", "3", "4", "5", "6", "7"})
         THEN 8
    ELSE IF s[2] \in {"b", "B"} /\ AllIn(SubSeq(s, 3, Len(s)), {"0", "1"}) THEN 2
    ELSE 0

\* a digit string without its leading zeros
StripZeros(s) ==
    LET sig == {i \in 1..Len(s) : s[i] # "0"} IN
    IF sig = {} THEN <<>> ELSE SubSeq(s, Least(sig), Len(s))

\* -1, 0 or 1 as the digit string a, read as the fraction 0.a, is less
\* than, equal to or greater than 0.b
CompareDigits(a, b) ==
    LET n     == IF Len(a) > Len(b) THEN Len(a) ELSE Len(b)
        at(s, i) == IF i <= Len(s) THEN DigitVal(s[i]) ELSE 0
        diffs == {i \in 1..n : at(a, i) # at(b, i)}
    IN  IF diffs = {} THEN 0
        ELSE LET i == CHOOSE j \in diffs : \A l \in diffs : j <= l
             IN  IF at(a, i) < at(b, i) THEN 0 - 1 ELSE 1

\* A Number is an IEEE double. The literals at and above 2^1024 - 2^970,
\* half way between the largest double and 2^1024, round to Infinity; the
\* literals at and below 2^-1075, half the smallest double, round to 0.
\* The decimal digits of 2^1024 - 2^970, a whole number of 309 digits:
OverflowDigits ==
  <<
    "1", "7", "9", "7", "6", "9", "3", "1", "3", "4", "8", "6", "2", "3", "1", "5",
    "8", "0", "7", "9", "3", "7", "2", "8", "9", "7", "1", "4", "0", "5", "3", "0",
    "3", "4", "1", "5", "0", "7", "9", "9", "3", "4", "1", "3", "2", "7", "1", "0",
    "0", "3", "7", "8", "2", "6", "9", "3", "6", "1", "7", "3", "7", "7", "8", "9",
    "8", "0", "4", "4", "4", "9", "6", "8", "2", "9", "2", "7", "6", "4", "7", "5",
    "0", "9", "4", "6", "6", "4", "9", "0", "1", "7", "9", "7", "7", "5", "8", "7",
    "2", "0", "7", "0", "9", "6", "3", "3", "0", "2", "8", "6", "4", "1", "6", "6",
    "9", "2", "8", "8", "7", "9", "1", "0", "9", "4", "6", "5", "5", "5", "5", "4",
    "7", "8", "5", "1", "9", "4", "0", "4", "0", "2", "6", "3", "0", "6", "5", "7",
    "4", "8", "8", "6", "7", "1", "5", "0", "5", "8", "2", "0", "6", "8", "1", "9",
    "0", "8", "9", "0", "2", "0", "0", "0", "7", "0", "8", "3", "8", "3", "6", "7",
    "6", "2", "7", "3", "8", "5", "4", "8", "4", "5", "8", "1", "7", "7", "1", "1",
    "5", "3", "1", "7", "6", "4", "4", "7", "5", "7", "3", "0", "2", "7", "0", "0",
    "6", "9", "8", "5", "5", "5", "7", "1", "3", "6", "6", "9", "5", "9", "6", "2",
    "2", "8", "4", "2", "9", "1", "4", "8", "1", "9", "8", "6", "0", "8", "3", "4",
    "9", "3", "6", "4", "7", "5", "2", "9", "2", "7", "1", "9", "0", "7", "4", "1",
    "6", "8", "4", "4", "4", "3", "6", "5", "5", "1", "0", "7", "0", "4", "3", "4",
    "2", "7", "1", "1", "5", "5", "9", "6", "9", "9", "5", "0", "8", "0", "9", "3",
    "0", "4", "2", "8", "8", "0", "1", "7", "7", "9", "0", "4", "1", "7", "4", "4",
    "9", "7", "7", "9", "2"
  >>
OverflowExponent == Len(OverflowDigits)

\* 2^-1075 is 5^1075 / 10^1075, that is 0.d * 10^-323 with d the decimal
\* digits of 5^1075:
UnderflowDigits ==
  <<
    "2", "4", "7", "0", "3", "2", "8", "2", "2", "9", "2", "0", "6", "2", "3", "2",
    "7", "2", "0", "8", "8", "2", "8", "4", "3", "9", "6", "4", "3", "4", "1", "1",
    "0", "6", "8", "6", "1", "8", "2", "5", "2", "9", "9", "0", "1", "3", "0", "7",
    "1", "6", "2", "3", "8", "2", "2", "1", "2", "7", "9", "2", "8", "4", "1", "2",
    "5", "0", "3", "3", "7", "7", "5", "3", "6", "3", "5", "1", "0", "4", "3", "7",
    "5", "9", "3", "2", "6", "4", "9", "9", "1", "8", "1", "8", "0", "8", "1", "7",
    "9", "9", "6", "1", "8", "9", "8", "9", "8", "2", "8", "2", "3", "4", "7", "7",
    "2", "2", "8", "5", "8", "8", "6", "5", "4", "6", "3", "3", "2", "8", "3", "5",
    "5", "1", "7", "7", "9", "6", "9", "8", "9", "8", "1", "9", "9", "3", "8", "7",
    "3", "9", "8", "0", "0", "5", "3", "9", "0", "9", "3", "9", "0", "6", "3", "1",
    "5", "0", "3", "5", "6", "5", "9", "5", "1", "5", "5", "7", "0", "2", "2", "6",
    "3", "9", "2", "2", "9", "0", "8", "5", "8", "3", "9", "2", "4", "4", "9", "1",
    "0", "5", "1", "8", "4", "4", "3", "5", "9", "3", "1", "8", "0", "2", "8", "4",
    "9", "9", "3", "6", "5", "3", "6", "1", "5", "2", "5", "0", "0", "3", "1", "9",
    "3", "7", "0", "4", "5", "7", "6", "7", "8", "2", "4", "9", "2", "1", "9", "3",
    "6", "5", "6", "2", "3", "6", "6", "9", "8", "6", "3", "6", "5", "8", "4", "8",
    "0", "7", "5", "7", "0", "0", "1", "5", "8", "5", "7", "6", "9", "2", "6", "9",
    "9", "0", "3", "7", "0", "6", "3", "1", "1", "9", "2", "8", "2", "7", "9", "5",
    "5", "8", "5", "5", "1", "3", "3", "2", "9", "2", "7", "8", "3", "4", "3", "3",
    "8", "4", "0", "9", "3", "5", "1", "9", "7", "8", "0", "1", "5", "5", "3", "1",
    "2", "4", "6", "5", "9", "7", "2", "6", "3", "5", "7", "9", "5", "7", "4", "6",
    "2", "2", "7", "6", "6", "4", "6", "5", "2", "7", "2", "8", "2", "7", "2", "2",
    "0", "0", "5", "6", "3", "7", "4", "0", "0", "6", "4", "8", "5", "4", "9", "9",
    "9", "7", "7", "0", "9", "6", "5", "9", "9", "4", "7", "0", "4", "5", "4", "0",
    "2", "0", "8", "2", "8", "1", "6", "6", "2", "2", "6", "2", "3", "7", "8", "5",
    "7", "3", "9", "3", "4", "5", "0", "7", "3", "6", "3", "3", "9", "0", "0", "7",
    "9", "6", "7", "7", "6", "1", "9", "3", "0", "5", "7", "7", "5", "0", "6", "7",
    "4", "0", "1", "7", "6", "3", "2", "4", "6", "7", "3", "6", "0", "0", "9", "6",
    "8", "9", "5", "1", "3", "4", "0", "5", "3", "5", "5", "3", "7", "4", "5", "8",
    "5", "1", "6", "6", "6", "1", "1", "3", "4", "2", "2", "3", "7", "6", "6", "6",
    "7", "8", "6", "0", "4", "1", "6", "2", "1", "5", "9", "6", "8", "0", "4", "6",
    "1", "9", "1", "4", "4", "6", "7", "2", "9", "1", "8", "4", "0", "3", "0", "0",
    "5", "3", "0", "0", "5", "7", "5", "3", "0", "8", "4", "9", "0", "4", "8", "7",
    "6", "5", "3", "9", "1", "7", "1", "1", "3", "8", "6", "5", "9", "1", "6", "4",
    "6", "2", "3", "9", "5", "2", "4", "9", "1", "2", "6", "2", "3", "6", "5", "3",
    "8", "8", "1", "8", "7", "9", "6", "3", "6", "2", "3", "9", "3", "7", "3", "2",
    "8", "0", "4", "2", "3", "8", "9", "1", "0", "1", "8", "6", "7", "2", "3", "4",
    "8", "4", "9", "7", "6", "6", "8", "2", "3", "5", "0", "8", "9", "8", "6", "3",
    "3", "8", "8", "5", "8", "7", "9", "2", "5", "6", "2", "8", "3", "0", "2", "7",
    "5", "5", "9", "9", "5", "6", "5", "7", "5", "2", "4", "4", "5", "5", "5", "0",
    "7", "2", "5", "5", "1", "8", "9", "3", "1", "3", "6", "9", "0", "8", "3", "6",
    "2", "5", "4", "7", "7", "9", "1", "8", "6", "9", "4", "8", "6", "6", "7", "9",
    "9", "4", "9", "6", "8", "3", "2", "4", "0", "4", "9", "7", "0", "5", "8", "2",
    "1", "0", "2", "8", "5", "1", "3", "1", "8", "5", "4", "5", "1", "3", "9", "6",
    "2", "1", "3", "8", "3", "7", "7", "2", "2", "8", "2", "6", "1", "4", "5", "4",
    "3", "7", "6", "9", "3", "4", "1", "2", "5", "3", "2", "0", "9", "8", "5", "9",
    "1", "3", "2", "7", "6", "6", "7", "2", "3", "6", "3", "2", "8", "1", "2", "5"
  >>
UnderflowExponent == Len(UnderflowDigits) - 1075

\* the same bound for the digits of a 0x, 0o or 0b literal: 54 one-bits
\* and 970 zero-bits
OverflowDigitsIn(base) ==
    CASE base = 16 -> Rep("f", 13) \o <<"c">> \o Rep("0", 242)
      [] base = 8  -> <<"1">> \o Rep("7", 17) \o <<"6">> \o Rep("0", 323)
      [] base = 2  -> Rep("1", 54) \o Rep("0", 970)

\* the value of the digits of a 0x, 0o or 0b literal
NonDecimal(digits, base) ==
    LET sig == StripZeros(digits)
        top == OverflowDigitsIn(base)
    IN  IF Len(sig) > Len(top) THEN Inf(1)
        ELSE IF Len(sig) = Len(top) /\ CompareDigits(sig, top) >= 0 THEN Inf(1)
        ELSE Num(BaseVal(sig, base))

\* an unsigned decimal literal: Infinity, or digits with an optional
\* fraction (one of the two sides of the point may be empty) and an optional
\* exponent. With sig the digits from the first that is not 0, the value is
\* 0.sig * 10^mag; it is Infinity or 0 when that is out of the range of a
\* double, and else the decimal itself, which stands for the double nearest
\* to it
UnsignedDecimal(s) ==
    LET e     == FirstIn(s, {"e", "E"})
        mant  == IF e = 0 THEN s ELSE SubSeq(s, 1, e - 1)
        expo  == IF e = 0 THEN <<>> ELSE SubSeq(s, e + 1, Len(s))
        dot   == FirstIn(mant, {"."})
        ip    == IF dot = 0 THEN mant ELSE SubSeq(mant, 1, dot - 1)
        fp    == IF dot = 0 THEN <<>> ELSE SubSeq(mant, dot + 1, Len(mant))
        esign == expo # <<>> /\ expo[1] \in {"+", "-"}
        edig  == IF esign THEN Tail(expo) ELSE expo
        mantOK == /\ ip = <<>> \/ AllDigits(ip)
                  /\ fp = <<>> \/ AllDigits(fp)
                  /\ ip # <<>> \/ fp # <<>>
        expOK == e = 0 \/ AllDigits(edig)
        ev    == IF e = 0 THEN 0
                 ELSE IF esign /\ expo[1] = "-" THEN 0 - DecVal(edig)
                 ELSE DecVal(edig)
        k     == ev - Len(fp)
        sig   == StripZeros(ip \o fp)
        mag   == Len(sig) + k
        m     == DecVal(sig)
    IN  IF s = <<"I", "n", "f", "i", "n", "i", "t", "y">> THEN Inf(1)
        ELSE IF ~mantOK \/ ~expOK THEN NaN
        ELSE IF sig = <<>> THEN Num(0)
        ELSE IF mag > OverflowExponent THEN Inf(1)
        ELSE IF mag = OverflowExponent /\ CompareDigits(sig, OverflowDigits) >= 0
             THEN Inf(1)
        ELSE IF mag < UnderflowExponent THEN Num(0)
        ELSE IF mag = UnderflowExponent /\ CompareDigits(sig, UnderflowDigits) <= 0
             THEN Num(0)
        ELSE IF k >= 0 THEN Num(m * Pow10(k))
        ELSE Decimal(m, Pow10(0 - k))

\* Number(string): white space is stripped; "" is 0; a 0x, 0o or 0b literal
\* or a signed decimal literal is its value; anything else is NaN
StringToNumber(s) ==
    LET t == Trim(s) IN
    IF t = <<>> THEN Num(0)
    ELSE IF NonDecimalBase(t) # 0
         THEN NonDecimal(SubSeq(t, 3, Len(t)), NonDecimalBase(t))
    ELSE IF t[1] = "-" THEN Negate(UnsignedDecimal(Tail(t)))
    ELSE IF t[1] = "+" THEN UnsignedDecimal(Tail(t))
    ELSE UnsignedDecimal(t)

\* Number(v)
ToNumber(v) ==
    CASE v.t = "undef" -> NaN
      [] v.t = "null"  -> Num(0)
      [] v.t = "num"   -> Num(v.n)
      [] v.t = "str"   -> StringToNumber(v.s)

\* ToBoolean(v)
Truthy(v) ==
    CASE v.t = "undef" -> FALSE
      [] v.t = "null"  -> FALSE
      [] v.t = "num"   -> v.n # 0
      [] v.t = "str"   -> v.s # <<>>

\* x && Number(x) > 0
Positive(v) == Truthy(v) /\ NumberIsPositive(ToNumber(v))

(***************************************************************************)
(* JSON documents and HTTP bodies                                          *)
(***************************************************************************)
\* a parsed JSON document: the literal null, or an object of which the
\* fields usdt_allocation, token_allocation and error are kept
DocNull == [k |-> "null"]
Doc(u, t, e) == [k |-> "obj", usdt |-> u, token |-> t, error |-> e]

\* a body as text: a document in compact or indented layout, or text that
\* is no JSON at all
Body(fmt, doc) == [fmt |-> fmt, doc |-> doc]
Garbage == [fmt |-> "garbage", doc |-> DocNull]

\* response.json(): throws on text that is no JSON
JsonParses(body) == body.fmt # "garbage"
JsonParse(body)  == body.doc

\* JSON.stringify(value): always the compact layout
JsonStringify(doc) == Body("compact", doc)

\* Response.ok
IsOk(status) == status >= 200 /\ status <= 299

Threw(msg) == [kind |-> "throw", message |-> msg]
Responded(status, body) == [kind |-> "resp", status |-> status, body |-> body]

(***************************************************************************)
(* The relay function (netlify/functions/allocation.js)                    *)
(***************************************************************************)
\* new URL(req.url).searchParams.get('entityId'): null or a string
NoParam  == [present |-> FALSE]
Param(s) == [present |-> TRUE, v |-> s]

NoError == ""
ErrorDoc(text) == Doc(Undef, Undef, text)

\* if (!entityId)
RelayRejects(param) == IF param.present THEN param.v = <<>> ELSE TRUE

Relay400 == Responded(400, JsonStringify(ErrorDoc("entityId parameter is required")))
Relay500 == Responded(500, JsonStringify(ErrorDoc("Failed to fetch allocation data")))

\* the try block once the upstream fetch has settled: a rejected fetch or a
\* body that is no JSON lands in the catch, anything else is answered 200
RelayRespond(up) ==
    IF up.kind = "throw" \/ ~JsonParses(up.body)
    THEN Relay500
    ELSE Responded(200, JsonStringify(JsonParse(up.body)))

\* the whole handler, for a request and the outcome of its upstream fetch
RelayHandler(param, up) ==
    IF RelayRejects(param) THEN Relay400 ELSE RelayRespond(up)

(***************************************************************************)
(* Inputs                                                                  *)
(***************************************************************************)
\* bytes16: an EntityID has 2 * 16 hex digits
EntityIDBytes == 16

ZeroID == Str0x \o Rep("0", 2 * EntityIDBytes)
ID1    == Str0x \o Rep("a", 2 * EntityIDBytes)
ID2    == Str0x \o Rep("b", 2 * EntityIDBytes)
EntityIDs == {ZeroID, ID1, ID2}
NoID == <<>>

AddrLower    == Str0x \o Rep("a", AddrHexLen)
AddrUpper    == Str0x \o Rep("A", AddrHexLen)
AddrNoPrefix == Rep("a", AddrHexLen)
AddrShort    == Str0x \o Rep("a", AddrHexLen - 1)
AddrBadHex   == Str0x \o Rep("a", AddrHexLen - 1) \o <<"g">>
AddrDotEth   == AddrLower \o DotEth
NameEth      == <<"v", "i", "t", "a", "l", "i", "k">> \o DotEth
EnsTarget    == Str0x \o Rep("b", AddrHexLen)

\* what the user can type into the input field
Inputs == {<<>>, AddrLower, AddrUpper, AddrNoPrefix, AddrShort, AddrBadHex,
           AddrDotEth, NameEth}

\* messages of the exceptions the remote calls can throw
Messages == {"network error"}

\* the tuple entityStateByID returns (addr, entityID and activeBid are not read)
EntityStates ==
    [acceptedAmount : {0, 1, 2500000},
     bidTimestamp   : {1700000000},
     refunded       : BOOLEAN,
     cancelled      : BOOLEAN]
NoState == [acceptedAmount |-> 0, bidTimestamp |-> 0,
            refunded |-> FALSE, cancelled |-> FALSE]

UsdtValues  == {Undef, JNull, JNum(0), JNum(500), JNum(0 - 1),
                JStr(<<"5", "0", "0">>), JStr(<<"a", "b", "c">>),
                JStr(<<"1", ".", "5">>), JStr(<<" ", "7", VT>>)}
TokenValues == {Undef, JNum(0), JNum(3), JStr(<<"1", "e", "3">>)}

AllocDocs == {Doc(u, t, NoError) : u \in UsdtValues, t \in TokenValues}
Docs == AllocDocs \cup {DocNull, ErrorDoc("not found")}

Bodies ==
    {Body("compact", d) : d \in Docs}
    \cup {Body("pretty", Doc(JNum(500), Undef, NoError)), Garbage}
ErrorBodies ==
    {Body("compact", ErrorDoc("not found")), Garbage,
     Body("compact", Doc(JNum(500), Undef, NoError))}

\* what a fetch of the upstream API can give
UpstreamOutcomes ==
    {Threw(m) : m \in Messages}
    \cup {Responded(200, b) : b \in Bodies}
    \cup {Responded(s, b) : s \in {404, 500}, b \in ErrorBodies}

NoResponse == [kind |-> "none"]

(***************************************************************************)
(* React state and results                                                 *)
(***************************************************************************)
NullResult == [isNull |-> TRUE]
NoText     == <<>>
NoProgress == [msg |-> ""]
Progress(m) == [msg |-> m]

\* apiError: null, error.message, or `API returned status ${status}`
NullError         == [isNull |-> TRUE]
MessageError(m)   == [isNull |-> FALSE, text |-> m]
StatusError(code) == [isNull |-> FALSE, text |-> "API returned status ", status |-> code]

Call(fn, arg) == [fn |-> fn, arg |-> arg]

\* the calls of a name among those issued
CallsOf(fn) == {i \in 1..Len(calls) : calls[i].fn = fn}

\* USDT has 6 decimals: 1e6
UsdtScale == 1000000

\* acceptedAmount / 1e6, as whole units and millionths
AmountUSDT(acceptedAmount) ==
    [units  |-> acceptedAmount \div UsdtScale,
     micros |-> acceptedAmount % UsdtScale]

(***************************************************************************)
(* checkAllocations, direct-read version with the API (unnamed/part_000)   *)
(***************************************************************************)
\* the locals of an invocation before anything is assigned to them
FreshLocals ==
    /\ entityID' = NoID
    /\ entityState' = NoState
    /\ apiResponse' = NoResponse

\* the versions of the component; the two direct-read ones have the same
\* checkAllocations up to the return of entityStateByID
DirectReads == {"direct", "noapi"}
Components  == DirectReads \cup {"scan"}

\* setLoading(true); setError(""); setResult(null); setProgress("")
StartRequest ==
    /\ loading' = TRUE
    /\ error' = NoText
    /\ result' = NullResult

\* setLoading(false) with the progress text left as it is
FinallyKeepsProgress ==
    /\ loading' = FALSE
    /\ UNCHANGED progress

\* setLoading(false); setProgress("")
Finally ==
    /\ loading' = FALSE
    /\ progress' = NoProgress

\* the test with the negation dropped
IsEnsInputNoNegation(a) == StartsWith(a, Str0x) \/ EndsWith(a, DotEth)

\* !address.startsWith("0x") || address.endsWith(".eth")
IsEnsInput(a) == ~StartsWith(a, Str0x) \/ EndsWith(a, DotEth)

\* let resolvedAddress = address: a literal is passed on as typed
ResolvedLiteral(a) == a

\* onChange of the input field, disabled while loading
SetAddress(a) ==
    /\ version \in Components
    /\ pc = "idle"
    /\ ~loading
    /\ a # address
    /\ address' = a
    /\ UNCHANGED <<version, dev, cancelRequested, loading, result, error,
                   progress, reqVars, directVars, scanVars, relayVars>>

\* if (!address): the error is set and nothing else is touched
SubmitEmpty ==
    /\ version \in DirectReads
    /\ pc = "idle"
    /\ address = <<>>
    /\ error' = <<"Please enter an address or ENS name">>
    /\ UNCHANGED <<version, dev, cancelRequested, address, loading, result,
                   progress, reqVars, directVars, scanVars, relayVars>>

\* the name path: getEnsAddress is issued
SubmitEns ==
    /\ version \in DirectReads
    /\ pc = "idle"
    /\ address # <<>>
    /\ IsEnsInput(address)
    /\ StartRequest
    /\ progress' = Progress("Resolving ENS name...")
    /\ resolvedAddress' = address
    /\ calls' = <<Call("getEnsAddress", address)>>
    /\ pc' = "getEnsAddress"
    /\ FreshLocals
    /\ UNCHANGED <<version, dev, cancelRequested, address, scanVars, relayVars>>

\* the literal path, input that does not match the regular expression
SubmitInvalid ==
    /\ version \in DirectReads
    /\ pc = "idle"
    /\ address # <<>>
    /\ ~IsEnsInput(address)
    /\ ~MatchesAddress(address)
    /\ error' = <<"Invalid Ethereum address format">>
    /\ result' = NullResult
    /\ Finally
    /\ resolvedAddress' = address
    /\ calls' = <<>>
    /\ FreshLocals
    /\ UNCHANGED <<version, dev, cancelRequested, address, pc, scanVars,
                   relayVars>>

\* the literal path, a valid literal: entityByAddress is issued with it
SubmitAddress ==
    /\ version \in DirectReads
    /\ pc = "idle"
    /\ address # <<>>
    /\ ~IsEnsInput(address)
    /\ MatchesAddress(address)
    /\ StartRequest
    /\ progress' = Progress("Fetching entityID...")
    /\ resolvedAddress' = ResolvedLiteral(address)
    /\ calls' = <<Call("entityByAddress", ResolvedLiteral(address))>>
    /\ pc' = "entityByAddress"
    /\ FreshLocals
    /\ UNCHANGED <<version, dev, cancelRequested, address, scanVars, relayVars>>

\* getEnsAddress gave an address: entityByAddress is issued with it
EnsResolved(a) ==
    /\ version \in DirectReads
    /\ pc = "getEnsAddress"
    /\ resolvedAddress' = a
    /\ progress' = Progress("Fetching entityID...")
    /\ calls' = Append(calls, Call("entityByAddress", a))
    /\ pc' = "entityByAddress"
    /\ UNCHANGED <<version, dev, cancelRequested, address, loading, result,
                   error, entityID, directVars, scanVars, relayVars>>

\* getEnsAddress gave null
EnsNotFound ==
    /\ version \in DirectReads
    /\ pc = "getEnsAddress"
    /\ resolvedAddress' = <<>>
    /\ error' = <<"ENS name not found or not resolved">>
    /\ Finally
    /\ pc' = "done"
    /\ UNCHANGED <<version, dev, cancelRequested, address, result, calls,
                   entityID, directVars, scanVars, relayVars>>

\* getEnsAddress threw
EnsFailed(m) ==
    /\ version \in DirectReads
    /\ pc = "getEnsAddress"
    /\ error' = <<"Failed to resolve ENS name: ", m>>
    /\ Finally
    /\ pc' = "done"
    /\ UNCHANGED <<version, dev, cancelRequested, address, result, calls,
                   resolvedAddress, entityID, directVars, scanVars, relayVars>>

\* entityByAddress returned, with the all-zero EntityID taken for a failure
EntityByAddressZeroIsFailure(id) ==
    /\ version \in DirectReads
    /\ pc = "entityByAddress"
    /\ entityID' = id
    /\ IF id = ZeroID
       THEN /\ error' = <<"Error: ", "no entity">>
            /\ Finally
            /\ pc' = "done"
            /\ UNCHANGED calls
       ELSE /\ progress' = Progress("Fetching allocation data...")
            /\ calls' = Append(calls, Call("entityStateByID", id))
            /\ pc' = "entityStateByID"
            /\ UNCHANGED <<loading, error>>
    /\ UNCHANGED <<version, dev, cancelRequested, address, result,
                   resolvedAddress, directVars, scanVars, relayVars>>

\* entityByAddress returned: entityStateByID is issued with what it gave
EntityByAddressReturns(id) ==
    /\ version \in DirectReads
    /\ pc = "entityByAddress"
    /\ entityID' = id
    /\ progress' = Progress("Fetching allocation data...")
    /\ calls' = Append(calls, Call("entityStateByID", id))
    /\ pc' = "entityStateByID"
    /\ UNCHANGED <<version, dev, cancelRequested, address, loading, result,
                   error, resolvedAddress, directVars, scanVars, relayVars>>

\* a readContract call threw, and the call is issued once more before giving up
ReadContractFailsRetrying(m) ==
    /\ version \in DirectReads
    /\ pc \in {"entityByAddress", "entityStateByID"}
    /\ IF Cardinality(CallsOf(pc)) < 2
       THEN /\ calls' = Append(calls, calls[Len(calls)])
            /\ UNCHANGED <<error, loading, progress, pc>>
       ELSE /\ error' = <<"Error: ", m>>
            /\ Finally
            /\ pc' = "done"
            /\ UNCHANGED calls
    /\ UNCHANGED <<version, dev, cancelRequested, address, result,
                   resolvedAddress, entityID, directVars, scanVars, relayVars>>

\* a readContract call threw: the outer catch and the finally
ReadContractFails(m) ==
    /\ version \in DirectReads
    /\ pc \in {"entityByAddress", "entityStateByID"}
    /\ error' = <<"Error: ", m>>
    /\ Finally
    /\ pc' = "done"
    /\ UNCHANGED <<version, dev, cancelRequested, address, result, calls,
                   resolvedAddress, entityID, directVars, scanVars, relayVars>>

\* entityStateByID returned: the fetch of the API is issued
EntityStateReturns(st) ==
    /\ version = "direct"
    /\ pc = "entityStateByID"
    /\ entityState' = st
    /\ progress' = Progress("Fetching confirmed allocation from API...")
    /\ calls' = Append(calls, Call("fetch", entityID))
    /\ pc' = "fetch"
    /\ UNCHANGED <<version, dev, cancelRequested, address, loading, result,
                   error, resolvedAddress, entityID, apiResponse, scanVars,
                   relayVars>>

\* what the browser's fetch gives for an outcome of the upstream API: in a
\* development build the proxy hands it over, in production the relay function
\* answers for it
FetchOutcome(isDev, id, up) ==
    IF isDev THEN up ELSE RelayHandler(Param(id), up)

\* apiAllocation after the inner try
ApiAllocation(resp) ==
    IF resp.kind = "resp" /\ IsOk(resp.status) /\ JsonParses(resp.body)
    THEN JsonParse(resp.body)
    ELSE DocNull

\* apiError with the else branch of if (apiResponse.ok) left out
ApiErrorNoStatus(resp) ==
    IF resp.kind = "throw" THEN MessageError(resp.message)
    ELSE IF IsOk(resp.status) /\ ~JsonParses(resp.body)
         THEN MessageError("Unexpected token")
    ELSE NullError

\* apiError after the inner try
ApiError(resp) ==
    IF resp.kind = "throw" THEN MessageError(resp.message)
    ELSE IF ~IsOk(resp.status) THEN StatusError(resp.status)
    ELSE IF ~JsonParses(resp.body) THEN MessageError("Unexpected token")
    ELSE NullError

\* the test with the token_allocation half left out
HasApiAllocationUsdtOnly(doc) == doc.k = "obj" /\ Positive(doc.usdt)
\* apiAllocation && ((usdt_allocation && Number(usdt_allocation) > 0) ||
\*                   (token_allocation && Number(token_allocation) > 0))
HasApiAllocation(doc) ==
    /\ doc.k = "obj"
    /\ (Positive(doc.usdt) \/ Positive(doc.token))

\* the object given to setResult, with a positive off-chain usdt_allocation
\* added to the on-chain amount
MakeResultSummed(id, st, doc, err) ==
    IF st.acceptedAmount = 0 /\ ~HasApiAllocation(doc)
    THEN [isNull |-> FALSE, found |-> FALSE,
          message |-> "No allocation detected",
          entityID |-> id, apiError |-> err, apiAllocation |-> doc]
    ELSE [isNull |-> FALSE, found |-> TRUE,
          amount |-> IF HasApiAllocationUsdtOnly(doc)
                     THEN [units  |-> st.acceptedAmount \div UsdtScale
                                         + ToNumber(doc.usdt).n \div ToNumber(doc.usdt).d,
                           micros |-> st.acceptedAmount % UsdtScale]
                     ELSE AmountUSDT(st.acceptedAmount),
          entityID |-> id,
          refunded |-> st.refunded, cancelled |-> st.cancelled,
          bidTimestamp |-> st.bidTimestamp,
          apiAllocation |-> doc, apiError |-> err]
\* the object given to setResult
MakeResult(id, st, doc, err) ==
    IF st.acceptedAmount = 0 /\ ~HasApiAllocation(doc)
    THEN [isNull |-> FALSE, found |-> FALSE,
          message |-> "No allocation detected",
          entityID |-> id, apiError |-> err, apiAllocation |-> doc]
    ELSE [isNull |-> FALSE, found |-> TRUE,
          amount |-> AmountUSDT(st.acceptedAmount),
          entityID |-> id,
          refunded |-> st.refunded, cancelled |-> st.cancelled,
          bidTimestamp |-> st.bidTimestamp,
          apiAllocation |-> doc, apiError |-> err]

\* the result is classified and set once the inner try is over
SetResult ==
    /\ result' = MakeResult(entityID, entityState,
                            ApiAllocation(apiResponse'), ApiError(apiResponse'))
    /\ Finally
    /\ pc' = "done"

\* await fetch(apiUrl) settled: a rejected fetch lands in the inner catch
\* and the result is set; a response has its body read next, by
\* apiResponse.json() or, when the status is no success, apiResponse.text()
FetchSettles(up) ==
    /\ version = "direct"
    /\ pc = "fetch"
    /\ apiResponse' = FetchOutcome(dev, entityID, up)
    /\ IF apiResponse'.kind = "throw"
       THEN SetResult
       ELSE /\ pc' = "body"
            /\ UNCHANGED <<loading, result, progress>>
    /\ UNCHANGED <<version, dev, cancelRequested, address, error, calls,
                   resolvedAddress, entityID, entityState, scanVars, relayVars>>

\* await apiResponse.json() or await apiResponse.text() settled
BodyRead ==
    /\ version = "direct"
    /\ pc = "body"
    /\ UNCHANGED apiResponse
    /\ SetResult
    /\ UNCHANGED <<version, dev, cancelRequested, address, error, calls,
                   resolvedAddress, entityID, entityState, scanVars, relayVars>>

\* the object given to setResult by the version without the API
MakeResultNoApi(id, st) ==
    IF st.acceptedAmount = 0
    THEN [isNull |-> FALSE, found |-> FALSE,
          message |-> "No allocation detected",
          entityID |-> id]
    ELSE [isNull |-> FALSE, found |-> TRUE,
          amount |-> AmountUSDT(st.acceptedAmount),
          entityID |-> id,
          refunded |-> st.refunded, cancelled |-> st.cancelled,
          bidTimestamp |-> st.bidTimestamp]

\* entityStateByID returned in the version without the API: the result is
\* set at once and no fetch is issued
EntityStateReturnsNoApi(st) ==
    /\ version = "noapi"
    /\ pc = "entityStateByID"
    /\ entityState' = st
    /\ result' = MakeResultNoApi(entityID, st)
    /\ Finally
    /\ pc' = "done"
    /\ UNCHANGED <<version, dev, cancelRequested, address, error, calls,
                   resolvedAddress, entityID, apiResponse, scanVars, relayVars>>

\* the invocation returns: its locals are gone, the React state stays
InvocationReturns ==
    /\ version \in Components
    /\ pc = "done"
    /\ pc' = "idle"
    /\ calls' = <<>>
    /\ resolvedAddress' = <<>>
    /\ entityID' = NoID
    /\ entityState' = NoState
    /\ apiResponse' = NoResponse
    /\ currentBlock' = 0
    /\ fromBlock' = 0
    /\ allLogs' = <<>>
    /\ cancelRequested' = FALSE
    /\ UNCHANGED <<version, dev, uiVars, relayVars>>

InitCommon ==
    /\ cancelRequested = FALSE
    /\ address = <<>>
    /\ loading = FALSE
    /\ result = NullResult
    /\ error = NoText
    /\ progress = NoProgress
    /\ pc = "idle"
    /\ calls = <<>>
    /\ resolvedAddress = <<>>
    /\ entityID = NoID
    /\ entityState = NoState
    /\ apiResponse = NoResponse
    /\ currentBlock = 0
    /\ fromBlock = 0
    /\ allLogs = <<>>
    /\ relayPc = "idle"
    /\ relayReq = NoParam
    /\ relayUp = NoResponse
    /\ relayResp = NoResponse
    /\ relayCalls = <<>>

InitDirect ==
    /\ version = "direct"
    /\ dev \in BOOLEAN
    /\ InitCommon

NextDirect ==
    \/ \E a \in Inputs : SetAddress(a)
    \/ SubmitEmpty
    \/ SubmitEns
    \/ SubmitInvalid
    \/ SubmitAddress
    \/ EnsResolved(EnsTarget)
    \/ EnsNotFound
    \/ \E m \in Messages : EnsFailed(m)
    \/ \E id \in EntityIDs : EntityByAddressReturns(id)
    \/ \E m \in Messages : ReadContractFails(m)
    \/ \E st \in EntityStates : EntityStateReturns(st)
    \/ \E up \in UpstreamOutcomes : FetchSettles(up)
    \/ BodyRead
    \/ InvocationReturns

SpecDirect == InitDirect /\ [][NextDirect]_vars

(***************************************************************************)
(* checkAllocations, direct-read version without the API                   *)
(* (src/App.jsx, first program)                                            *)
(***************************************************************************)
InitNoApi ==
    /\ version = "noapi"
    /\ dev = FALSE
    /\ InitCommon

NextNoApi ==
    \/ \E a \in Inputs : SetAddress(a)
    \/ SubmitEmpty
    \/ SubmitEns
    \/ SubmitInvalid
    \/ SubmitAddress
    \/ EnsResolved(EnsTarget)
    \/ EnsNotFound
    \/ \E m \in Messages : EnsFailed(m)
    \/ \E id \in EntityIDs : EntityByAddressReturns(id)
    \/ \E m \in Messages : ReadContractFails(m)
    \/ \E st \in EntityStates : EntityStateReturnsNoApi(st)
    \/ InvocationReturns

SpecNoApi == InitNoApi /\ [][NextNoApi]_vars

(***************************************************************************)
(* The relay function as a server: one request at a time                   *)
(***************************************************************************)
RelayParams == {NoParam, Param(<<>>)} \cup {Param(id) : id \in EntityIDs}

\* a request arrives with no usable entityId: 400, upstream is not called
RelayRejectsRequest(param) ==
    /\ version = "relay"
    /\ relayPc = "idle"
    /\ RelayRejects(param)
    /\ relayReq' = param
    /\ relayUp' = NoResponse
    /\ relayCalls' = <<>>
    /\ relayResp' = Relay400
    /\ relayPc' = "responded"
    /\ UNCHANGED <<version, dev, cancelRequested, uiVars, reqVars, directVars,
                   scanVars>>

\* a request arrives with an entityId: the upstream fetch is issued
RelayForwards(param) ==
    /\ version = "relay"
    /\ relayPc = "idle"
    /\ ~RelayRejects(param)
    /\ relayReq' = param
    /\ relayUp' = NoResponse
    /\ relayCalls' = <<param.v>>
    /\ relayResp' = NoResponse
    /\ relayPc' = "upstream"
    /\ UNCHANGED <<version, dev, cancelRequested, uiVars, reqVars, directVars,
                   scanVars>>

\* await fetch(apiUrl) settled: a rejected fetch lands in the catch, a
\* response is handed to response.json(), which is awaited next
RelayUpstreamSettles(up) ==
    /\ version = "relay"
    /\ relayPc = "upstream"
    /\ relayUp' = up
    /\ IF up.kind = "throw"
       THEN relayResp' = RelayRespond(up) /\ relayPc' = "responded"
       ELSE relayResp' = NoResponse /\ relayPc' = "json"
    /\ UNCHANGED <<version, dev, cancelRequested, uiVars, reqVars, directVars,
                   scanVars, relayReq, relayCalls>>

\* await response.json() settled: the Response is built, in the try or in
\* the catch
RelayBodyRead ==
    /\ version = "relay"
    /\ relayPc = "json"
    /\ relayResp' = RelayRespond(relayUp)
    /\ relayPc' = "responded"
    /\ UNCHANGED <<version, dev, cancelRequested, uiVars, reqVars, directVars,
                   scanVars, relayReq, relayUp, relayCalls>>

\* the Response is sent; the function keeps nothing between requests
RelayDone ==
    /\ version = "relay"
    /\ relayPc = "responded"
    /\ relayPc' = "idle"
    /\ UNCHANGED <<version, dev, cancelRequested, uiVars, reqVars, directVars,
                   scanVars, relayReq, relayUp, relayResp, relayCalls>>

InitRelay ==
    /\ version = "relay"
    /\ dev = FALSE
    /\ InitCommon

NextRelay ==
    \/ \E p \in RelayParams : RelayRejectsRequest(p)
    \/ \E p \in RelayParams : RelayForwards(p)
    \/ \E up \in UpstreamOutcomes : RelayUpstreamSettles(up)
    \/ RelayBodyRead
    \/ RelayDone

SpecRelay == InitRelay /\ [][NextRelay]_vars

(***************************************************************************)
(* checkAllocations, event-scan version (src/App.jsx, second program)      *)
(***************************************************************************)
START_BLOCK == 21280000
CHUNK_SIZE  == 50000

\* the most chunks a scan of the model has, and the most AllocationSet
\* events the chain holds in the scanned range
MaxChunks == 3
MaxLogs   == 2

\* what getBlockNumber can give: one block short of START_BLOCK, heads that
\* end the first or second chunk at its first and at its last block, and
\* heads that end a chunk 20,000 blocks into it
Heads ==
    {START_BLOCK - 1}
    \cup {START_BLOCK + k * CHUNK_SIZE + d : k \in 0..1, d \in {0, CHUNK_SIZE - 1}}
    \cup {START_BLOCK + k * CHUNK_SIZE + 19999 : k \in 0..(MaxChunks - 1)}

\* what the user can type into the input field of the event-scan version
ScanInputs == {<<>>, AddrLower, AddrUpper, AddrNoPrefix}

\* what entityByAddress can give in the event-scan version
ScanEntityIDs == {ZeroID, ID1}

\* EntityIDs as the logs carry them: ID1 also in upper-case hex digits
ID1Upper == Str0x \o Rep("A", 2 * EntityIDBytes)
LogEntityIDs == {ID1, ID1Upper, ID2}
LogAmounts == {1, 2500000}

\* BigInt.prototype.toString(): the decimal digits
DigitChar(d) ==
    CASE d = 0 -> "0" [] d = 1 -> "1" [] d = 2 -> "2" [] d = 3 -> "3"
      [] d = 4 -> "4" [] d = 5 -> "5" [] d = 6 -> "6" [] d = 7 -> "7"
      [] d = 8 -> "8" [] d = 9 -> "9"

RECURSIVE ToDecimalString(_)
ToDecimalString(n) ==
    IF n < 10 THEN <<DigitChar(n)>>
    ELSE Append(ToDecimalString(n \div 10), DigitChar(n % 10))

\* one log of a getLogs answer; the transaction is named by its block and
\* its place in the answer
Log(id, amt, blk, idx) ==
    [entityID |-> id, acceptedAmountUSDT |-> amt, blockNumber |-> blk,
     transactionHash |-> <<blk, idx>>]

\* the answers getLogs can give for [from, to] when the chain still has room
\* for n events: logs of the range, in block order
RECURSIVE LogAnswers(_, _, _, _)
LogAnswers(from, to, n, idx) ==
    {<<>>} \cup
    IF n = 0 THEN {}
    ELSE {<<Log(id, amt, blk, idx)>> \o rest :
            id \in LogEntityIDs, amt \in LogAmounts, blk \in {from, to},
            rest \in LogAnswers(from, to, n - 1, idx + 1)}

BlockOrdered(logs) ==
    \A i \in 1..(Len(logs) - 1) : logs[i].blockNumber <= logs[i + 1].blockNumber

\* fromBlock <= currentBlock, with < in its place
LoopContinuesStrict(from, head) == from < head

\* the loop condition: fromBlock <= currentBlock
LoopContinues(from, head) == from <= head

\* the upper end with the - 1n left out
ToBlockOffByOne(from, head) ==
    IF from + CHUNK_SIZE > head THEN head ELSE from + CHUNK_SIZE

\* fromBlock + CHUNK_SIZE - 1n > currentBlock ? currentBlock : fromBlock + CHUNK_SIZE - 1n
ToBlock(from, head) ==
    IF from + CHUNK_SIZE - 1 > head THEN head ELSE from + CHUNK_SIZE - 1

\* the answers to the query in flight
ChunkAnswers ==
    {logs \in LogAnswers(fromBlock, ToBlock(fromBlock, currentBlock),
                         MaxLogs - Len(allLogs), 1) : BlockOrdered(logs)}

GetLogsCall(from, to) == [fn |-> "getLogs", fromBlock |-> from, toBlock |-> to]

\* log.args.entityID.toLowerCase() === entityID.toLowerCase()
IsUserAllocation(log, id) == ToLowerCase(log.entityID) = ToLowerCase(id)

\* allLogs.filter(...)
UserAllocations(logs, id) == SelectSeq(logs, LAMBDA l : IsUserAllocation(l, id))

\* the first match taken for the latest
LatestAllocFirst(userAllocations) == userAllocations[1]

\* userAllocations[userAllocations.length - 1]
LatestAlloc(userAllocations) == userAllocations[Len(userAllocations)]

\* the object given to setResult once the loop has ended
ScanResult(id, logs) ==
    LET userAllocations == UserAllocations(logs, id) IN
    IF Len(userAllocations) = 0
    THEN [isNull |-> FALSE, found |-> FALSE,
          message |-> "No allocation detected", entityID |-> id]
    ELSE LET latestAlloc == LatestAlloc(userAllocations) IN
         [isNull |-> FALSE, found |-> TRUE,
          amount |-> AmountUSDT(latestAlloc.acceptedAmountUSDT),
          transactionHash |-> latestAlloc.transactionHash,
          blockNumber |-> ToDecimalString(latestAlloc.blockNumber),
          totalAllocations |-> Len(userAllocations),
          entityID |-> id]

FreshScanLocals ==
    /\ entityID' = NoID
    /\ currentBlock' = 0
    /\ fromBlock' = 0
    /\ allLogs' = <<>>

\* if (!address)
ScanSubmitEmpty ==
    /\ version = "scan"
    /\ pc = "idle"
    /\ address = <<>>
    /\ error' = <<"Please enter an address">>
    /\ UNCHANGED <<version, dev, cancelRequested, address, loading, result,
                   progress, reqVars, directVars, scanVars, relayVars>>

\* the format check, made before anything is reset
ScanSubmitInvalid ==
    /\ version = "scan"
    /\ pc = "idle"
    /\ address # <<>>
    /\ ~MatchesAddress(address)
    /\ error' = <<"Invalid Ethereum address format">>
    /\ UNCHANGED <<version, dev, cancelRequested, address, loading, result,
                   progress, reqVars, directVars, scanVars, relayVars>>

\* a valid literal, with getBlockNumber and entityByAddress issued together
ScanSubmitParallel ==
    /\ version = "scan"
    /\ pc = "idle"
    /\ address # <<>>
    /\ MatchesAddress(address)
    /\ StartRequest
    /\ progress' = Progress("Getting current block...")
    /\ resolvedAddress' = address
    /\ calls' = <<Call("getBlockNumber", <<>>), Call("entityByAddress", address)>>
    /\ pc' = "entityByAddress"
    /\ FreshScanLocals
    /\ UNCHANGED <<version, dev, cancelRequested, address, directVars,
                   relayVars>>

\* a valid literal: getBlockNumber is issued
ScanSubmit ==
    /\ version = "scan"
    /\ pc = "idle"
    /\ address # <<>>
    /\ MatchesAddress(address)
    /\ StartRequest
    /\ progress' = Progress("Getting current block...")
    /\ resolvedAddress' = address
    /\ calls' = <<Call("getBlockNumber", <<>>)>>
    /\ pc' = "getBlockNumber"
    /\ FreshScanLocals
    /\ UNCHANGED <<version, dev, cancelRequested, address, directVars,
                   relayVars>>

\* getBlockNumber returned: entityByAddress is issued
BlockNumberReturns(head) ==
    /\ version = "scan"
    /\ pc = "getBlockNumber"
    /\ currentBlock' = head
    /\ progress' = Progress("Fetching entityID...")
    /\ calls' = Append(calls, Call("entityByAddress", address))
    /\ pc' = "entityByAddress"
    /\ UNCHANGED <<version, dev, cancelRequested, address, loading, result,
                   error, resolvedAddress, entityID, fromBlock, allLogs,
                   directVars, relayVars>>

\* the loop at a test of its condition with loop variable from and the logs
\* gathered so far: another getLogs is issued, or the result is set
ScanLoop(from, logs, id) ==
    IF LoopContinues(from, currentBlock)
    THEN /\ progress' = [msg |-> "Scanning blocks", fromBlock |-> from,
                         toBlock |-> ToBlock(from, currentBlock)]
         /\ calls' = Append(calls, GetLogsCall(from, ToBlock(from, currentBlock)))
         /\ pc' = "getLogs"
         /\ UNCHANGED <<loading, result>>
    ELSE /\ result' = ScanResult(id, logs)
         /\ Finally
         /\ pc' = "done"
         /\ UNCHANGED calls

\* entityByAddress returned: the loop starts at START_BLOCK
ScanEntityByAddressReturns(id) ==
    /\ version = "scan"
    /\ pc = "entityByAddress"
    /\ entityID' = id
    /\ fromBlock' = START_BLOCK
    /\ ScanLoop(START_BLOCK, allLogs, id)
    /\ UNCHANGED <<version, dev, cancelRequested, address, error,
                   resolvedAddress, currentBlock, allLogs, directVars,
                   relayVars>>

\* getLogs returned: allLogs.push(...logs); fromBlock += CHUNK_SIZE
GetLogsReturns(logs) ==
    /\ version = "scan"
    /\ pc = "getLogs"
    /\ allLogs' = allLogs \o logs
    /\ fromBlock' = fromBlock + CHUNK_SIZE
    /\ ScanLoop(fromBlock + CHUNK_SIZE, allLogs \o logs, entityID)
    /\ UNCHANGED <<version, dev, cancelRequested, address, error,
                   resolvedAddress, currentBlock, entityID, directVars,
                   relayVars>>

\* a failed chunk query after which what the earlier chunks gave is reported
ScanCallFailsPartial(m) ==
    /\ version = "scan"
    /\ pc \in {"getBlockNumber", "entityByAddress", "getLogs"}
    /\ IF pc = "getLogs"
       THEN result' = ScanResult(entityID, allLogs) /\ UNCHANGED error
       ELSE error' = <<"Error: ", m>> /\ UNCHANGED result
    /\ Finally
    /\ pc' = "done"
    /\ UNCHANGED <<version, dev, cancelRequested, address, calls,
                   resolvedAddress, entityID, directVars, scanVars, relayVars>>

\* getBlockNumber, entityByAddress or getLogs threw: the catch and the finally
ScanCallFails(m) ==
    /\ version = "scan"
    /\ pc \in {"getBlockNumber", "entityByAddress", "getLogs"}
    /\ error' = <<"Error: ", m>>
    /\ Finally
    /\ pc' = "done"
    /\ UNCHANGED <<version, dev, cancelRequested, address, result, calls,
                   resolvedAddress, entityID, directVars, scanVars, relayVars>>

\* the getLogs in flight returns one of the answers the chain can give
GetLogsSettles == \E logs \in ChunkAnswers : GetLogsReturns(logs)

InitScan ==
    /\ version = "scan"
    /\ dev = FALSE
    /\ InitCommon

NextScan ==
    \/ \E a \in ScanInputs : SetAddress(a)
    \/ ScanSubmitEmpty
    \/ ScanSubmitInvalid
    \/ ScanSubmit
    \/ \E h \in Heads : BlockNumberReturns(h)
    \/ \E id \in ScanEntityIDs : ScanEntityByAddressReturns(id)
    \/ GetLogsSettles
    \/ \E m \in Messages : ScanCallFails(m)
    \/ InvocationReturns

SpecScan == InitScan /\ [][NextScan]_vars

(***************************************************************************)
(* The event scan with a caller that may ask for it to stop                *)
(***************************************************************************)
\* the caller asks for the scan in flight to stop; checkAllocations takes no
\* signal and reads no flag, so nothing of the request changes
RequestCancel ==
    /\ version = "scan"
    /\ pc \in {"getBlockNumber", "entityByAddress", "getLogs"}
    /\ ~cancelRequested
    /\ cancelRequested' = TRUE
    /\ UNCHANGED <<version, dev, uiVars, reqVars, directVars, scanVars, relayVars>>

NextScanCancel == NextScan \/ RequestCancel

SpecScanCancel == InitScan /\ [][NextScanCancel]_vars

(***************************************************************************)
(* Either version of the component                                         *)
(***************************************************************************)
InitApp == InitDirect \/ InitNoApi \/ InitScan

NextApp ==
    \/ version = "direct" /\ NextDirect
    \/ version = "noapi" /\ NextNoApi
    \/ version = "scan" /\ NextScan

SpecApp == InitApp /\ [][NextApp]_vars

(***************************************************************************)
(* Claims about the direct-read version and the relay                      *)
(***************************************************************************)
\* a value that, read as a number, is greater than 0
GreaterThanZero(v) == NumberIsPositive(ToNumber(v))

\* the off-chain record carries a positive usdt_allocation or token_allocation
CarriesAllocation(doc) ==
    IF doc.k = "obj"
    THEN GreaterThanZero(doc.usdt) \/ GreaterThanZero(doc.token)
    ELSE FALSE

\* the fetch of the API failed: it threw, the answer has a non-success
\* status, or the body of a success answer is no JSON
FetchFailed(resp) ==
    IF resp.kind = "throw" THEN TRUE
    ELSE IF resp.kind = "resp"
         THEN (resp.status < 200 \/ resp.status > 299) \/ resp.body.fmt = "garbage"
    ELSE FALSE

LastCall == calls[Len(calls)]

\* C1: every completed request of the direct-read version has found = true
\* exactly when the on-chain acceptedAmount is greater than 0 or the off-chain
\* record carries a usdt_allocation or a token_allocation greater than 0.
C1_FoundIffPositive ==
    (pc = "done" /\ ~result.isNull) =>
        (result.found <=>
            (entityState.acceptedAmount > 0 \/ CarriesAllocation(result.apiAllocation)))

\* found = true on the strength of the token_allocation alone
C1_Witness ==
    /\ pc = "done"
    /\ ~result.isNull
    /\ result.found
    /\ entityState.acceptedAmount = 0
    /\ result.apiAllocation.k = "obj"
    /\ ~GreaterThanZero(result.apiAllocation.usdt)
    /\ GreaterThanZero(result.apiAllocation.token)

\* C2: when the off-chain fetch fails (non-success status, fetch throws, body
\* not parseable) the request goes on to its end without another remote call:
\* it ends with a result and no request-level error; the result has a null
\* off-chain allocation, a non-null off-chain error, and
\* found = (acceptedAmount > 0).
C2_FetchFailureIsolated ==
    [][/\ (pc = "fetch") => pc' \in {"body", "done"}
       /\ (pc = "body") => (pc' = "done" /\ apiResponse' = apiResponse)
       /\ (pc \in {"fetch", "body"}) => (error' = NoText /\ calls' = calls)
       /\ (pc \in {"fetch", "body"} /\ pc' = "done" /\ FetchFailed(apiResponse')) =>
             /\ ~result'.isNull
             /\ result'.apiAllocation = DocNull
             /\ ~result'.apiError.isNull
             /\ result'.found = (entityState.acceptedAmount > 0)]_vars

\* a production build whose relay answered 500, with an on-chain amount
C2_Witness ==
    /\ pc = "done"
    /\ ~dev
    /\ apiResponse.kind = "resp"
    /\ apiResponse.status = 500
    /\ ~result.isNull
    /\ result.found
    /\ ~result.apiError.isNull

\* the relay's body is the upstream body: the same text, or JSON text of the
\* same document
SameBody(a, b) ==
    \/ a = b
    \/ (a.fmt # "garbage" /\ b.fmt # "garbage" /\ a.doc = b.doc)

\* C3: the relay answers 400 without calling upstream when entityId is
\* missing, 500 when the upstream call fails at transport level, and otherwise
\* the status and the body the upstream API returned.
C3_RelayTransparent ==
    (relayPc = "responded") =>
        IF RelayRejects(relayReq)
        THEN relayResp.status = 400 /\ relayCalls = <<>>
        ELSE IF relayUp.kind = "throw"
        THEN relayResp.status = 500
        ELSE /\ relayResp.status = relayUp.status
             /\ SameBody(relayResp.body, relayUp.body)

\* C4: if entityByAddress or entityStateByID fails, the request ends in the
\* error state with no result; the failed call was issued once, the off-chain
\* fetch is not issued, and no call is issued once the request has ended.
C4_ChainReadFatal ==
    [][/\ (pc \in {"entityByAddress", "entityStateByID"} /\ pc' = "done") =>
             /\ result'.isNull
             /\ error' # NoText
             /\ ~loading'
             /\ calls' = calls
             /\ Cardinality(CallsOf(pc)) = 1
             /\ CallsOf("fetch") = {}
       /\ (pc = "done") => (calls' = calls \/ calls' = <<>>)]_vars

\* entityStateByID failed after entityByAddress had answered
C4_Witness ==
    /\ pc = "done"
    /\ Len(calls) = 2
    /\ LastCall.fn = "entityStateByID"
    /\ entityID \in EntityIDs
    /\ result.isNull
    /\ error = <<"Error: ", "network error">>

\* 40 hexadecimal digits, and the same with the 0x prefix
IsHex40(s) == Len(s) = 40 /\ \A i \in 1..Len(s) : s[i] \in HexChars
IsPrefixedHex40(s) ==
    /\ Len(s) = 42
    /\ SubSeq(s, 1, 2) = <<"0", "x">>
    /\ IsHex40(SubSeq(s, 3, 42))

\* b is a with other letter casing
SameUpToCase(a, b) == ToLowerCase(a) = ToLowerCase(b)

\* C9 as stated: for every input of 40 hex digits, with or without 0x, the
\* request goes on without a getEnsAddress call, and inputs that differ only
\* in casing give entityByAddress the same address (hex strings that are
\* equal once lower-cased).
C9_AsStated ==
    (pc # "idle" /\ (IsHex40(address) \/ IsPrefixedHex40(address))) =>
        /\ CallsOf("getEnsAddress") = {}
        /\ \A i \in CallsOf("entityByAddress") :
              \A b \in Inputs :
                 SameUpToCase(address, b) => SameUpToCase(calls[i].arg, b)

\* C9, amended: for every input of 0x followed by 40 hex digits the request
\* reaches entityByAddress without a getEnsAddress call, and the address given
\* is the input as typed: inputs that differ only in casing give addresses
\* equal up to casing.
C9_PrefixedLiteral ==
    (pc # "idle" /\ IsPrefixedHex40(address)) =>
        /\ CallsOf("getEnsAddress") = {}
        /\ calls # <<>>
        /\ calls[1] = Call("entityByAddress", address)
        /\ \A b \in Inputs :
              (SameUpToCase(address, b) /\ IsPrefixedHex40(b)) =>
                  SameUpToCase(calls[1].arg, b)

\* the upper-case literal went to entityByAddress as typed
C9_Witness ==
    /\ pc = "entityByAddress"
    /\ address = AddrUpper
    /\ calls = <<Call("entityByAddress", AddrUpper)>>

\* C10: when entityByAddress returns the all-zero EntityID the request goes
\* on (entityStateByID is issued with it); once the fetch is issued it ends
\* with a result, and with nothing on-chain and no off-chain allocation that
\* result has found = false and carries the zero EntityID.
C10_ZeroEntityIsNotAnError ==
    (entityID = ZeroID) =>
        /\ \E i \in CallsOf("entityStateByID") : calls[i].arg = ZeroID
        /\ (pc = "done" /\ CallsOf("fetch") # {}) =>
              /\ ~result.isNull
              /\ result.entityID = ZeroID
              /\ (entityState.acceptedAmount = 0
                    /\ ~CarriesAllocation(result.apiAllocation)) => ~result.found

\* a request for the zero EntityID that ended with found = false
C10_Witness ==
    /\ pc = "done"
    /\ entityID = ZeroID
    /\ ~result.isNull
    /\ ~result.found
    /\ result.entityID = ZeroID
    /\ error = NoText

(***************************************************************************)
(* Claims about the event-scan version                                     *)
(***************************************************************************)
\* the getLogs queries issued, in the order of issue
Queries == SelectSeq(calls, LAMBDA c : c.fn = "getLogs")

Width(q) == q.toBlock - q.fromBlock + 1

\* the least n with n * d >= a, for a >= 0
CeilDiv(a, d) == (a + d - 1) \div d

\* C5: every getLogs query covers an inclusive range [fromBlock, toBlock]
\* with fromBlock <= toBlock and at most 50,000 blocks.
C5_ChunkWidthBounded ==
    LET q == Queries IN
    \A i \in 1..Len(q) :
        /\ q[i].fromBlock <= q[i].toBlock
        /\ Width(q[i]) <= 50000

\* a finished scan with a query of the full width and a narrower last one
C5_Witness ==
    /\ pc = "done"
    /\ ~result.isNull
    /\ Len(Queries) >= 2
    /\ Width(Queries[1]) = 50000
    /\ Width(Queries[Len(Queries)]) < 50000

\* C6: the chunk queries partition [START_BLOCK, head]: the first starts at
\* START_BLOCK, each next one starts at the previous toBlock + 1, none goes
\* beyond head; a scan that ends with a result has issued
\* ceiling((head - START_BLOCK + 1) / 50,000) queries, the last ending at head,
\* and a range of 120,000 blocks gives the widths 50,000, 50,000, 20,000.
C6_ChunksPartitionRange ==
    LET q == Queries
        n == Len(q)
    IN  /\ n > 0 => q[1].fromBlock = 21280000
        /\ \A i \in 1..n : q[i].toBlock <= currentBlock
        /\ \A i \in 1..(n - 1) : q[i + 1].fromBlock = q[i].toBlock + 1
        /\ (version = "scan" /\ pc = "done" /\ ~result.isNull) =>
              /\ n = CeilDiv(currentBlock - 21280000 + 1, 50000)
              /\ n > 0 => q[n].toBlock = currentBlock
              /\ (currentBlock - 21280000 + 1 = 120000) =>
                    /\ n = 3
                    /\ Width(q[1]) = 50000
                    /\ Width(q[2]) = 50000
                    /\ Width(q[3]) = 20000

\* a finished scan of 120,000 blocks
C6_Witness ==
    /\ pc = "done"
    /\ ~result.isNull
    /\ currentBlock - 21280000 + 1 = 120000
    /\ Len(Queries) = 3

\* the scanned events that carry the target EntityID, by place in allLogs
Matching ==
    {i \in 1..Len(allLogs) :
        ToLowerCase(allLogs[i].entityID) = ToLowerCase(entityID)}

\* the highest block number among the events at the places m
HighestBlock(m) ==
    CHOOSE b \in {allLogs[i].blockNumber : i \in m} :
        \A i \in m : allLogs[i].blockNumber <= b

\* C7: when a scan ends with a result and some scanned event has the target
\* EntityID, the reported block number, amount and transaction hash are those
\* of a matching event with the highest block number over all chunks; when no
\* event matches, found = false and no error is set.
C7_LatestEventWins ==
    (version = "scan" /\ pc = "done" /\ ~result.isNull) =>
        LET m == Matching IN
        IF m = {}
        THEN ~result.found /\ error = NoText
        ELSE LET highest == HighestBlock(m) IN
             /\ result.found
             /\ DecVal(result.blockNumber) = highest
             /\ \E i \in m :
                   /\ allLogs[i].blockNumber = highest
                   /\ result.transactionHash = allLogs[i].transactionHash
                   /\ result.amount.units * 1000000 + result.amount.micros
                         = allLogs[i].acceptedAmountUSDT

\* two matching events of different amounts in different chunks, the later
\* one followed by nothing: the result is the later one's
C7_Witness ==
    /\ pc = "done"
    /\ ~result.isNull
    /\ result.found
    /\ Len(allLogs) = 2
    /\ Matching = {1, 2}
    /\ allLogs[1].blockNumber < allLogs[2].blockNumber
    /\ allLogs[1].acceptedAmountUSDT # allLogs[2].acceptedAmountUSDT
    /\ result.transactionHash = allLogs[2].transactionHash

\* C8: if a chunk query fails, the request ends in the error state with no
\* result set, whatever the earlier chunks gave, and no chunk is queried
\* afterwards.
C8_ChunkFailureFatal ==
    [][/\ (pc = "getLogs" /\ pc' = "done" /\ fromBlock' = fromBlock) =>
             /\ result'.isNull
             /\ error' # NoText
             /\ ~loading'
             /\ calls' = calls
       /\ (pc = "done") => (calls' = calls \/ calls' = <<>>)]_vars

\* the second chunk query failed after the first had given an event
C8_Witness ==
    /\ pc = "done"
    /\ result.isNull
    /\ error = <<"Error: ", "network error">>
    /\ allLogs # <<>>
    /\ Len(Queries) = 2
    /\ Queries[2].toBlock < currentBlock

(***************************************************************************)
(* The flags and the amount of a result                                    *)
(***************************************************************************)
\* result.<field> as the display reads it: a field the object does not have
\* is undefined, which is falsy
FlagOf(r, field) == IF field \in DOMAIN r THEN r[field] ELSE FALSE

\* C11: in every result of a direct-read request, the refunded and cancelled
\* fields are those of the on-chain record read for the request, whether
\* found is true or false and whatever the off-chain answer was.
C11_FlagsPassThrough ==
    (version = "direct" /\ pc = "done" /\ ~result.isNull) =>
        /\ FlagOf(result, "refunded") = entityState.refunded
        /\ FlagOf(result, "cancelled") = entityState.cancelled

\* the off-chain answer of a settled fetch is a success carrying this
\* usdt_allocation
OffChainUsdtIs(v) ==
    /\ apiResponse.kind = "resp"
    /\ IsOk(apiResponse.status)
    /\ JsonParses(apiResponse.body)
    /\ JsonParse(apiResponse.body).k = "obj"
    /\ JsonParse(apiResponse.body).usdt = v

\* C12: the amount of a found = true result is the on-chain acceptedAmount
\* divided by 1,000,000, whatever the off-chain answer; with acceptedAmount 0
\* and an off-chain usdt_allocation of 500 the result has found = true,
\* amount 0 and the off-chain 500 beside it, not added to it.
C12_AmountIsOnChainOnly ==
    (version = "direct" /\ pc = "done" /\ ~result.isNull) =>
        /\ result.found =>
              /\ result.amount.units * 1000000 + result.amount.micros
                    = entityState.acceptedAmount
              /\ result.amount.micros \in 0..999999
        /\ (entityState.acceptedAmount = 0 /\ OffChainUsdtIs(JNum(500))) =>
              /\ result.found
              /\ result.amount.units = 0
              /\ result.amount.micros = 0
              /\ result.apiAllocation.usdt = JNum(500)

\* acceptedAmount 0 on chain, usdt_allocation 500 off chain
C12_Witness ==
    /\ pc = "done"
    /\ ~result.isNull
    /\ entityState.acceptedAmount = 0
    /\ OffChainUsdtIs(JNum(500))
    /\ result.found
    /\ result.amount = [units |-> 0, micros |-> 0]
    /\ result.apiAllocation.usdt = JNum(500)

(***************************************************************************)
(* The order of the remote calls of a request                              *)
(***************************************************************************)
\* the place of a call in the order the statement gives: identity
\* resolution, entity location, chain-state read, off-chain fetch
StatedRank(fn) ==
    CASE fn = "getEnsAddress"   -> 1
      [] fn = "entityByAddress" -> 2
      [] fn \in {"entityStateByID", "getBlockNumber", "getLogs"} -> 3
      [] fn = "fetch"           -> 4

\* the place of a call in the order of the code: the head-block query of the
\* event scan comes before entity location
CodeRank(fn) ==
    CASE fn = "getEnsAddress"   -> 1
      [] fn = "getBlockNumber"  -> 1
      [] fn = "entityByAddress" -> 2
      [] fn = "entityStateByID" -> 3
      [] fn = "getLogs"         -> 3
      [] fn = "fetch"           -> 4

\* the call has returned a value, which the request holds
Completed(c) ==
    CASE c.fn = "getEnsAddress"   -> resolvedAddress # <<>> /\ resolvedAddress # c.arg
      [] c.fn = "entityByAddress" -> entityID # NoID
      [] c.fn = "entityStateByID" -> entityState # NoState
      [] c.fn = "getBlockNumber"  -> currentBlock # 0
      [] c.fn = "getLogs"         -> fromBlock > c.fromBlock
      [] c.fn = "fetch"           -> apiResponse # NoResponse

\* one call at a time: every call but the last has returned a value, and a
\* request waiting at a call is waiting at the last one issued, with no error
OneAtATime ==
    /\ \A i \in 1..(Len(calls) - 1) : Completed(calls[i])
    /\ (pc \notin {"idle", "done"}) =>
          /\ calls # <<>>
          /\ LastCall.fn = (IF pc = "body" THEN "fetch" ELSE pc)
          /\ error = NoText

\* C13 as stated: the calls of a request are issued one at a time in the
\* order identity resolution, entity location, chain-state read (head-block
\* query and chunk queries included), off-chain fetch, so that no chain-state
\* read is issued before entity location.
C13_AsStated ==
    /\ OneAtATime
    /\ \A i, j \in 1..Len(calls) :
          i < j =>
            /\ StatedRank(calls[i].fn) <= StatedRank(calls[j].fn)
            /\ (StatedRank(calls[i].fn) = StatedRank(calls[j].fn)) =>
                  StatedRank(calls[i].fn) = 3

\* C13: the calls of a request are issued one at a time, each after the one
\* before has returned a value: in the direct-read version name resolution,
\* entityByAddress, entityStateByID, fetch; in the event-scan version the
\* head-block query, then entityByAddress, then the chunk queries in
\* ascending order. No chunk query comes before entity location.
C13_CodeOrder ==
    /\ OneAtATime
    /\ \A i, j \in 1..Len(calls) :
          i < j =>
            \/ CodeRank(calls[i].fn) < CodeRank(calls[j].fn)
            \/ /\ calls[i].fn = "getLogs"
               /\ calls[j].fn = "getLogs"
               /\ calls[i].toBlock < calls[j].fromBlock

\* an event scan of three chunks that ended with a result
C13_Witness ==
    /\ version = "scan"
    /\ pc = "done"
    /\ ~result.isNull
    /\ Len(calls) = 5
    /\ calls[1].fn = "getBlockNumber"
    /\ calls[2].fn = "entityByAddress"
    /\ Len(Queries) = 3

(***************************************************************************)
(* Cancellation of an event scan                                           *)
(***************************************************************************)
\* C14: once the caller has asked for an event scan to stop, the chunk query
\* in flight may complete but no further chunk query is issued.
C14_CancelObserved ==
    [][(version = "scan" /\ cancelRequested) =>
           (Queries' = Queries \/ calls' = <<>>)]_vars

(***************************************************************************)
(* What the React state shows between and during requests                  *)
(***************************************************************************)
\* C15: a request waiting at a remote call has loading = true, and a request
\* that has ended, however it ended, has loading = false and no progress
\* text; so has the component when no request has been started.
C15_LoadingBracketsRequest ==
    /\ (pc \notin {"idle", "done"}) => (loading /\ calls # <<>>)
    /\ (pc \in {"idle", "done"}) => (~loading /\ progress = NoProgress)

\* a request that ended at a failed name resolution, its progress text gone
C15_Witness ==
    /\ pc = "done"
    /\ calls = <<Call("getEnsAddress", NameEth)>>
    /\ error = <<"Failed to resolve ENS name: ", "network error">>
    /\ ~loading
    /\ progress = NoProgress

\* C16: whenever no request is in flight, a result and an error message are
\* not both set: a rejected submission does not leave the result of an
\* earlier request beside its error.
C16_ResultXorError ==
    (pc \in {"idle", "done"}) => (result.isNull \/ error = NoText)

====
